---- MODULE Spec2Model ----
(***************************************************************************)
(* Model of poetry.installation.chef.Chef: one prepare() call, from the    *)
(* wheel short-circuit through sdist unpacking, root detection,            *)
(* destination resolution and the isolated build, to the value returned    *)
(* or the exception raised.                                                *)
(*                                                                         *)
(* Strings are sequences of one-character strings, bytes are sequences of  *)
(* integers, a path is the sequence of its components (each a string).     *)
(***************************************************************************)
EXTENDS Integers, Sequences, FiniteSets, TLC

VARIABLES
    archive,          \* prepare(archive, ...): path of the artifact
    output_dir,       \* prepare(..., output_dir): a path or None
    editable,         \* prepare(..., editable=)
    config_settings,  \* prepare(..., config_settings=)
    initial_dirs,     \* the directories on disk when prepare was called
    dirs,             \* filesystem: paths that are directories
    files,            \* filesystem: paths that are regular files
    pc,               \* position inside prepare
    destination,      \* local `destination` of prepare / _prepare_sdist
    candidate,        \* archive.name.rstrip(suffix) once line 98 has run
    sdist_dir,        \* local `sdist_dir` of _prepare_sdist
    build_call,       \* what the isolated builder was invoked with
    backend,          \* the BuildBackendException raised by the builder, if any
    raised,           \* the exception as first raised by a collaborator
    outcome,          \* what prepare returns or raises (final when pc = "done")
    effects           \* which collaborators have been called so far

vars == <<archive, output_dir, editable, config_settings, initial_dirs, dirs, files, pc,
          destination, candidate, sdist_dir, build_call, backend, raised,
          outcome, effects>>

----------------------------------------------------------------------------
(* Bounds of the model *)

MaxStemLen == 3      \* longest archive stem drawn from Alphabet

----------------------------------------------------------------------------
(* Strings, bytes and paths *)

None == <<>>                 \* the absent path (output_dir=None)
NoneBytes == <<-1>>          \* stderr/stdout is None (b"" is <<>>)
NotComputed == <<"?">>       \* candidate before line 98 has run

Alphabet == {"a", "p"}

RECURSIVE StemsOfLen(_)
StemsOfLen(n) ==
    IF n = 0 THEN {<<>>}
    ELSE {Append(s, c) : s \in StemsOfLen(n - 1), c \in Alphabet}

Stems == UNION {StemsOfLen(n) : n \in 1..MaxStemLen}

Extensions == { <<>>,
                <<".", "w", "h", "l">>,
                <<".", "z", "i", "p">>,
                <<".", "g", "z">>,
                <<".", "t", "a", "r", ".", "g", "z">> }

ArchiveNames == {s \o e : s \in Stems, e \in Extensions}

WheelSuffix == <<".", "w", "h", "l">>
ZipSuffix == <<".", "z", "i", "p">>

\* str.rfind('.'), 1-based; 0 when there is no dot
RECURSIVE RFindDot(_, _)
RFindDot(name, i) ==
    IF i = 0 THEN 0
    ELSE IF name[i] = "." THEN i
    ELSE RFindDot(name, i - 1)

\* pathlib.PurePath.suffix of the final component
Suffix(name) ==
    LET j == RFindDot(name, Len(name))
    IN  IF 1 < j /\ j < Len(name) THEN SubSeq(name, j, Len(name)) ELSE <<>>

CharsOf(s) == {s[i] : i \in 1..Len(s)}

\* str.rstrip(chars): drops every trailing character that occurs in chars
RECURSIVE rstrip(_, _)
rstrip(s, chars) ==
    IF Len(s) > 0 /\ s[Len(s)] \in CharsOf(chars)
    THEN rstrip(SubSeq(s, 1, Len(s) - 1), chars)
    ELSE s

Name(path) == path[Len(path)]

\* Path.__truediv__ with one relative component; an empty one changes nothing
PathJoin(path, name) == IF name = <<>> THEN path ELSE Append(path, name)

IsPrefix(p, q) == Len(p) <= Len(q) /\ SubSeq(q, 1, Len(p)) = p

is_dir(path, ds) == path \in ds

\* list(archive_dir.glob("*")): the direct children
Glob(path, ds, fs) ==
    {q \in ds \cup fs : Len(q) = Len(path) + 1 /\ IsPrefix(path, q)}

OutDir == << <<"o", "u", "t">> >>
TmpDir == << <<"t", "m", "p">> >>
MkdTemp == << <<"p", "o", "e", "t", "r", "y", "-", "c", "h", "e", "f", "-">> >>
CacheRoot == << <<"c", "a", "c", "h", "e">> >>
Other == <<"x">>
WheelFile == <<"b", "u", "i", "l", "t", ".", "w", "h", "l">>

----------------------------------------------------------------------------
(* Exceptions *)

NoExc == [cls |-> "None", msg |-> <<>>, origin |-> "", cause |-> "None",
          context |-> "None", suppress_context |-> FALSE]

\* an exception raised by a collaborator, as it leaves that collaborator
Exc(cls, msg, origin) ==
    [cls |-> cls, msg |-> msg, origin |-> origin, cause |-> "None",
     context |-> "None", suppress_context |-> FALSE]

\* the direct base classes. ChefError is created at line 23, after
\* IsolatedBuildError was imported complete at line 13, so it is not among
\* the bases of IsolatedBuildError.
Bases(cls) ==
    CASE cls = "ChefError" -> {"Exception"}
      [] cls = "IsolatedBuildError" -> {"Exception"}
      [] cls = "BuildBackendException" -> {"Exception"}
      [] cls = "OSError" -> {"Exception"}
      [] cls = "PermissionError" -> {"OSError"}
      [] cls = "ValueError" -> {"Exception"}
      [] OTHER -> {}

RECURSIVE issubclass(_, _)
issubclass(cls, base) ==
    cls = base \/ \E b \in Bases(cls) : issubclass(b, base)

\* `except BuildBackendException as e` (line 68)
ExceptClauseCatchesAll(cls) == issubclass(cls, "Exception")
ExceptClause(cls) == issubclass(cls, "BuildBackendException")

SystemErrors == {"OSError", "PermissionError", "ValueError"}

\* BuildBackendException(exception, description): str(e) and e.exception
NoBackend == [failed |-> FALSE, description |-> <<>>, inner |-> "None",
              stderr |-> NoneBytes, stdout |-> NoneBytes, inner_str |-> <<>>]

ByteStrings == {NoneBytes, <<>>, <<69>>, <<79>>}

BackendFailures ==
    [failed : {TRUE}, description : {<<"B">>},
     inner : {"CalledProcessError"},
     stderr : ByteStrings \ {<<79>>}, stdout : ByteStrings \ {<<69>>},
     inner_str : {<<"C">>}]
    \cup
    [failed : {TRUE}, description : {<<"B">>}, inner : {"RuntimeError"},
     stderr : {NoneBytes}, stdout : {NoneBytes}, inner_str : {<<"I">>}]

\* poetry.utils._compat.decode on the bytes the model draws
Chr(b) == CASE b = 69 -> "E" [] b = 79 -> "O" [] OTHER -> "?"
decode(text) == [i \in 1..Len(text) |-> Chr(text[i])]

\* Python truthiness of an optional bytes value
Truthy(text) == text # NoneBytes /\ text # <<>>

BlankLine == <<"\n", "\n">>

RECURSIVE join(_, _)
join(sep, parts) ==
    IF Len(parts) = 0 THEN <<>>
    ELSE IF Len(parts) = 1 THEN parts[1]
    ELSE parts[1] \o sep \o join(sep, Tail(parts))

\* lines 69-76
message_parts_stdout_first(e) ==
    IF e.inner = "CalledProcessError"
    THEN LET text == IF Truthy(e.stdout) THEN e.stdout ELSE e.stderr
         IN  IF text # NoneBytes
             THEN <<e.description, decode(text)>>
             ELSE <<e.description>>
    ELSE <<e.description, e.inner_str>>
message_parts(e) ==
    IF e.inner = "CalledProcessError"
    THEN LET text == IF Truthy(e.stderr) THEN e.stderr ELSE e.stdout
         IN  IF text # NoneBytes
             THEN <<e.description, decode(text)>>
             ELSE <<e.description>>
    ELSE <<e.description, e.inner_str>>

\* lines 78-81: IsolatedBuildError(...) raised `from None` after the handler
IsolatedBuildErrorChained(e) ==
    [cls |-> "IsolatedBuildError", msg |-> join(BlankLine, message_parts(e)),
     origin |-> "_prepare", cause |-> "BuildBackendException",
     context |-> "None", suppress_context |-> TRUE]
IsolatedBuildErrorFrom(e) ==
    [cls |-> "IsolatedBuildError", msg |-> join(BlankLine, message_parts(e)),
     origin |-> "_prepare", cause |-> "None",
     context |-> "None", suppress_context |-> TRUE]

\* the traceback shows another exception behind this one
IsChained(exc) ==
    exc.cause # "None" \/ (exc.context # "None" /\ ~exc.suppress_context)

----------------------------------------------------------------------------
(* Pure parts of Chef *)

\* line 119
_is_wheel(path) == Suffix(Name(path)) = WheelSuffix

\* line 115
_should_prepare_by_suffix(path, ds) == ~_is_wheel(path)
_should_prepare(path, ds) == is_dir(path, ds) \/ ~_is_wheel(path)

\* line 51
DistributionSwapped(ed) == IF ~ed THEN "editable" ELSE "wheel"
Distribution(ed) == IF ~ed THEN "wheel" ELSE "editable"

\* line 98: archive.name.rstrip(suffix)
CandidateName(path) == rstrip(Name(path), Suffix(Name(path)))

\* lines 93-100
SdistDirAnySingle(archive_dir, path, ds, fs) ==
    LET elements == Glob(archive_dir, ds, fs)
    IN  IF Cardinality(elements) = 1
        THEN CHOOSE q \in elements : TRUE
        ELSE LET named == PathJoin(archive_dir, CandidateName(path))
             IN  IF ~is_dir(named, ds) THEN archive_dir ELSE named
SdistDir(archive_dir, path, ds, fs) ==
    LET elements == Glob(archive_dir, ds, fs)
    IN  IF Cardinality(elements) = 1
           /\ is_dir(CHOOSE q \in elements : TRUE, ds)
        THEN CHOOSE q \in elements : TRUE
        ELSE LET named == PathJoin(archive_dir, CandidateName(path))
             IN  IF ~is_dir(named, ds) THEN archive_dir ELSE named

\* line 98 runs only in the else branch of line 95
CandidateComputed(archive_dir, path, ds, fs) ==
    LET elements == Glob(archive_dir, ds, fs)
    IN  IF Cardinality(elements) = 1
           /\ is_dir(CHOOSE q \in elements : TRUE, ds)
        THEN NotComputed
        ELSE CandidateName(path)

\* ArtifactCache.get_cache_directory_for_link(Link(archive.as_uri()))
CacheDirFor(path) == Append(CacheRoot, Name(path))

\* Path.mkdir(parents=True, exist_ok=True)
MkdirNothing(ds, path) == ds
Mkdir(ds, path) == ds \cup {SubSeq(path, 1, k) : k \in 1..Len(path)}

\* leaving `with temporary_directory()`: the tree under tmp_dir is removed
CleanupOnSuccessOnly(paths, result) ==
    IF result.kind = "return"
    THEN {q \in paths : ~IsPrefix(TmpDir, q)}
    ELSE paths
CleanupOnExit(paths, result) == {q \in paths : ~IsPrefix(TmpDir, q)}

----------------------------------------------------------------------------
(* State *)

NoCall == [invoked |-> FALSE, source |-> None, distribution |-> "None",
           destination |-> None, config_settings |-> {},
           dest_exists |-> FALSE, tmp_exists |-> FALSE]

NoOutcome == [kind |-> "none", value |-> None, exc |-> NoExc]
Return(path) == [kind |-> "return", value |-> path, exc |-> NoExc]
Raise(exc) == [kind |-> "raise", value |-> None, exc |-> exc]

NoEffects == [build |-> FALSE, extractall |-> FALSE, cache |-> FALSE,
              mkdir |-> FALSE, mkdtemp |-> FALSE, tmp |-> FALSE,
              zip |-> FALSE]

SettingsValues == { {}, {<<"opt", "1">>} }

\* the stem as pathlib computes it (the name without its final suffix)
PathStem(name) == SubSeq(name, 1, Len(name) - Len(Suffix(name)))

\* names the top-level entries of an unpacked archive are drawn from
EntryNames(path) ==
    {PathStem(Name(path)), CandidateName(path), Other} \ {<<>>}

Init ==
    /\ \E n \in ArchiveNames : archive = <<n>>
    /\ output_dir \in {None, OutDir}
    /\ editable \in BOOLEAN
    /\ config_settings \in SettingsValues
    /\ \E archive_is_dir \in BOOLEAN, out_exists \in BOOLEAN,
          cache_exists \in BOOLEAN :
          /\ out_exists => output_dir = OutDir
          /\ cache_exists => (output_dir = None /\ ~archive_is_dir)
          /\ dirs = (IF archive_is_dir THEN {archive} ELSE {})
                    \cup (IF out_exists THEN {OutDir} ELSE {})
                    \cup (IF cache_exists
                          THEN {CacheRoot, CacheDirFor(archive)} ELSE {})
          /\ files = (IF archive_is_dir THEN {} ELSE {archive})
    /\ initial_dirs = dirs
    /\ pc = "start"
    /\ destination = None
    /\ candidate = NotComputed
    /\ sdist_dir = None
    /\ build_call = NoCall
    /\ backend = NoBackend
    /\ raised = NoExc
    /\ outcome = NoOutcome
    /\ effects = NoEffects

inputs == <<archive, output_dir, editable, config_settings, initial_dirs>>

----------------------------------------------------------------------------
(* Chef.prepare, lines 34-44 *)

\* lines 37-38: a finished wheel is handed back
ReturnWheel ==
    /\ pc = "start"
    /\ ~_should_prepare(archive, dirs)
    /\ outcome' = Return(archive)
    /\ pc' = "done"
    /\ UNCHANGED <<inputs, dirs, files, destination, candidate, sdist_dir,
                   build_call, backend, raised, effects>>

\* lines 40-41: a directory; destination = output_dir or mkdtemp()
DirectoryDestination ==
    /\ pc = "start"
    /\ _should_prepare(archive, dirs)
    /\ is_dir(archive, dirs)
    /\ IF output_dir # None
       THEN /\ destination' = output_dir
            /\ pc' = "build_dir"
            /\ UNCHANGED <<dirs, raised, outcome, effects>>
       ELSE \/ /\ destination' = MkdTemp
               /\ dirs' = dirs \cup {MkdTemp}
               /\ effects' = [effects EXCEPT !.mkdtemp = TRUE]
               /\ pc' = "build_dir"
               /\ UNCHANGED <<raised, outcome>>
            \/ \E cls \in {"OSError"} :
               /\ raised' = Exc(cls, <<"M">>, "mkdtemp")
               /\ outcome' = Raise(raised')
               /\ effects' = [effects EXCEPT !.mkdtemp = TRUE]
               /\ pc' = "done"
               /\ UNCHANGED <<dirs, destination>>
    /\ UNCHANGED <<inputs, files, candidate, sdist_dir, build_call, backend>>

\* line 44: an archive; _prepare_sdist(archive, destination=output_dir)
\* line 89: with temporary_directory() as tmp_dir
EnterTemporaryDirectory ==
    /\ pc = "start"
    /\ _should_prepare(archive, dirs)
    /\ ~is_dir(archive, dirs)
    /\ destination' = output_dir
    /\ effects' = [effects EXCEPT !.tmp = TRUE]
    /\ \/ /\ dirs' = dirs \cup {TmpDir}
          /\ pc' = "extract"
          /\ UNCHANGED <<raised, outcome>>
       \/ /\ raised' = Exc("OSError", <<"T">>, "temporary_directory")
          /\ outcome' = Raise(raised')
          /\ pc' = "done"
          /\ UNCHANGED dirs
    /\ UNCHANGED <<inputs, files, candidate, sdist_dir, build_call, backend>>

----------------------------------------------------------------------------
(* Chef._prepare_sdist, lines 83-112 *)

\* line 91: extractall(source=archive, dest=archive_dir, zip=zip)
Extract ==
    /\ pc = "extract"
    /\ effects' = [effects EXCEPT !.extractall = TRUE,
                                  !.zip = (Suffix(Name(archive)) = ZipSuffix)]
    /\ \/ \E names \in SUBSET EntryNames(archive) :
          \E tree \in [names -> {"file", "dir"}] :
             /\ dirs' = dirs \cup
                   {Append(TmpDir, n) : n \in {m \in names : tree[m] = "dir"}}
             /\ files' = files \cup
                   {Append(TmpDir, n) : n \in {m \in names : tree[m] = "file"}}
             /\ pc' = "detect"
             /\ UNCHANGED <<raised, outcome>>
       \/ /\ raised' = Exc("OSError", <<"X">>, "extractall")
          /\ outcome' = Raise(raised')
          /\ pc' = "exit_tmp"
          /\ UNCHANGED <<dirs, files>>
    /\ UNCHANGED <<inputs, destination, candidate, sdist_dir, build_call,
                   backend>>

\* lines 93-100: root detection
DetectRoot ==
    /\ pc = "detect"
    /\ sdist_dir' = SdistDir(TmpDir, archive, dirs, files)
    /\ candidate' = CandidateComputed(TmpDir, archive, dirs, files)
    /\ pc' = "resolve"
    /\ UNCHANGED <<inputs, dirs, files, destination, build_call, backend,
                   raised, outcome, effects>>

\* lines 102-105: destination from the artifact cache when none was given
ResolveDestination ==
    /\ pc = "resolve"
    /\ IF destination # None
       THEN /\ pc' = "mkdir"
            /\ UNCHANGED <<destination, raised, outcome, effects>>
       ELSE /\ effects' = [effects EXCEPT !.cache = TRUE]
            /\ \/ /\ destination' = CacheDirFor(archive)
                  /\ pc' = "mkdir"
                  /\ UNCHANGED <<raised, outcome>>
               \/ /\ raised' = Exc("ValueError", <<"U">>,
                                   "get_cache_directory_for_link")
                  /\ outcome' = Raise(raised')
                  /\ pc' = "exit_tmp"
                  /\ UNCHANGED destination
    /\ UNCHANGED <<inputs, dirs, files, candidate, sdist_dir, build_call,
                   backend>>

\* line 107: destination.mkdir(parents=True, exist_ok=True)
MakeDestination ==
    /\ pc = "mkdir"
    /\ effects' = [effects EXCEPT !.mkdir = TRUE]
    /\ \/ /\ dirs' = Mkdir(dirs, destination)
          /\ pc' = "build_sdist"
          /\ UNCHANGED <<raised, outcome>>
       \/ /\ ~is_dir(destination, dirs)
          /\ raised' = Exc("PermissionError", <<"P">>, "mkdir")
          /\ outcome' = Raise(raised')
          /\ pc' = "exit_tmp"
          /\ UNCHANGED dirs
    /\ UNCHANGED <<inputs, files, destination, candidate, sdist_dir,
                   build_call, backend>>

\* line 89, leaving the with block, by return or by exception
ExitTemporaryDirectory ==
    /\ pc = "exit_tmp"
    /\ dirs' = CleanupOnExit(dirs, outcome)
    /\ files' = CleanupOnExit(files, outcome)
    /\ pc' = "done"
    /\ UNCHANGED <<inputs, destination, candidate, sdist_dir, build_call,
                   backend, raised, outcome, effects>>

----------------------------------------------------------------------------
(* Chef._prepare, lines 46-81 *)

_prepare(directory, dest, ed, settings, next) ==
    /\ build_call' = [invoked |-> TRUE, source |-> directory,
                      distribution |-> Distribution(ed),
                      destination |-> dest, config_settings |-> settings,
                      dest_exists |-> is_dir(dest, dirs),
                      tmp_exists |-> is_dir(TmpDir, dirs)]
    /\ effects' = [effects EXCEPT !.build = TRUE]
    /\ \/ \* lines 61-67: the backend built the distribution
          /\ dirs' = dirs \cup {dest}
          /\ files' = files \cup {Append(dest, WheelFile)}
          /\ outcome' = Return(Append(dest, WheelFile))
          /\ UNCHANGED <<backend, raised>>
       \/ \* lines 68-81: BuildBackendException
          \E e \in BackendFailures :
             /\ backend' = e
             /\ raised' = Exc("BuildBackendException", e.description,
                              "builder")
             /\ outcome' = IF ExceptClause(raised'.cls)
                           THEN Raise(IsolatedBuildErrorFrom(e))
                           ELSE Raise(raised')
             /\ UNCHANGED <<dirs, files>>
       \/ \* any other exception of the isolated environment
          \E cls \in SystemErrors :
             /\ raised' = Exc(cls, <<"S">>, "builder")
             /\ outcome' = IF ExceptClause(raised'.cls)
                           THEN Raise(IsolatedBuildErrorFrom(
                                   [NoBackend EXCEPT !.inner_str = <<"S">>]))
                           ELSE Raise(raised')
             /\ UNCHANGED <<dirs, files, backend>>
    /\ pc' = next
    /\ UNCHANGED <<inputs, destination, candidate, sdist_dir>>

\* line 42
BuildDirectory ==
    /\ pc = "build_dir"
    /\ _prepare(archive, destination, editable, config_settings, "done")

\* lines 109-112: editable and config_settings take their defaults
BuildSdist ==
    /\ pc = "build_sdist"
    /\ _prepare(sdist_dir, destination, FALSE, {}, "exit_tmp")

----------------------------------------------------------------------------

Next ==
    \/ ReturnWheel
    \/ DirectoryDestination
    \/ EnterTemporaryDirectory
    \/ Extract
    \/ DetectRoot
    \/ ResolveDestination
    \/ MakeDestination
    \/ BuildDirectory
    \/ BuildSdist
    \/ ExitTemporaryDirectory

Spec == Init /\ [][Next]_vars

TypeOK ==
    /\ pc \in {"start", "build_dir", "extract", "detect", "resolve", "mkdir",
               "build_sdist", "exit_tmp", "done"}
    /\ outcome.kind \in {"none", "return", "raise"}
    /\ editable \in BOOLEAN

----------------------------------------------------------------------------
(* Properties *)

Done == pc = "done"

\* the artifact is a file whose final suffix is .whl
FinishedWheel ==
    ~is_dir(archive, dirs) /\ Suffix(Name(archive)) = WheelSuffix

\* C1: prepare hands the artifact back unchanged, with no build, no
\* extraction, no cache lookup and no directory created, exactly when the
\* artifact is not a directory and its final suffix is .whl; every other
\* artifact (a directory named *.whl included) goes on to preparation.
C1_WheelPassThrough ==
    /\ FinishedWheel =>
          /\ pc \in {"start", "done"}
          /\ effects = NoEffects
          /\ ~build_call.invoked
          /\ dirs = initial_dirs
          /\ Done => outcome = Return(archive)
    /\ (~FinishedWheel /\ Done) =>
          /\ outcome # Return(archive)
          /\ effects # NoEffects

C1_Witness ==
    Done /\ FinishedWheel /\ outcome = Return(archive)

\* C2: whenever the isolated builder is invoked, for a directory or for a
\* source archive, the settings it receives are the settings the caller
\* gave to prepare.
C2_SettingsForwarded ==
    build_call.invoked => build_call.config_settings = config_settings

SecondPart(e) ==
    IF e.inner = "CalledProcessError"
    THEN LET text == IF e.stderr = NoneBytes \/ e.stderr = <<>>
                     THEN e.stdout ELSE e.stderr
         IN  IF text = NoneBytes THEN <<>> ELSE decode(text)
    ELSE e.inner_str

NoCapturedOutput(e) ==
    /\ e.inner = "CalledProcessError"
    /\ e.stderr \in {NoneBytes, <<>>}
    /\ e.stdout = NoneBytes

\* C4 as stated: the message of a build failure always is the backend's
\* description, a blank line, and the second part.
C4_AlwaysTwoParts ==
    (Done /\ backend.failed) =>
        outcome.exc.msg = backend.description \o BlankLine \o SecondPart(backend)

\* C4: the message of a build failure is the backend's description, a blank
\* line and the second part (decoded stderr, else stdout, of a process exit
\* failure; otherwise the inner exception's string), except that it is the
\* description alone when a process exit failure has no stderr text and its
\* stdout is None.
C4_MessageComposition ==
    (Done /\ backend.failed) =>
        outcome.exc.msg =
            IF NoCapturedOutput(backend)
            THEN backend.description
            ELSE backend.description \o BlankLine \o SecondPart(backend)

C4_Witness ==
    /\ Done
    /\ backend.failed
    /\ backend.inner = "CalledProcessError"
    /\ backend.stderr = <<>>
    /\ backend.stdout = <<79>>
    /\ outcome.exc.msg = <<"B", "\n", "\n", "O">>

\* C5: an exception that is not a backend build exception, wherever in
\* prepare it was raised, reaches the caller as that same exception.
C5_OtherExceptionsPropagate ==
    (Done /\ raised.cls \notin {"None", "BuildBackendException"}) =>
        outcome = Raise(raised)

C5_Witness ==
    /\ Done
    /\ raised.origin = "builder"
    /\ raised.cls = "PermissionError"
    /\ outcome = Raise(raised)
    /\ effects.extractall

\* C6: on the archive path the temporary unpack directory exists from root
\* detection until the build has ended, and nothing of it is left once
\* prepare has returned or raised.
C6_TemporaryDirectoryScoped ==
    /\ pc \in {"detect", "resolve", "mkdir", "build_sdist", "exit_tmp"} =>
          is_dir(TmpDir, dirs)
    /\ (build_call.invoked /\ ~is_dir(archive, dirs)) => build_call.tmp_exists
    /\ Done => \A q \in dirs \cup files : ~IsPrefix(TmpDir, q)

C6_Witness ==
    /\ Done
    /\ effects.extractall
    /\ build_call.invoked
    /\ build_call.tmp_exists
    /\ backend.failed
    /\ ~is_dir(TmpDir, dirs)

\* C7 as stated: the destination handed to the isolated builder exists when
\* the builder is invoked, for directories as well as for archives.
C7_DestinationExists ==
    build_call.invoked => build_call.dest_exists

\* C7: the destination handed to the isolated builder exists when the
\* builder is invoked for a source archive (given by the caller or taken
\* from the cache), and for a directory when prepare made the destination
\* itself.
C7_DestinationExistsForArchives ==
    (build_call.invoked /\ (~is_dir(archive, dirs) \/ output_dir = None)) =>
        build_call.dest_exists

C7_Witness ==
    /\ build_call.invoked
    /\ ~is_dir(archive, dirs)
    /\ output_dir = OutDir
    /\ OutDir \notin initial_dirs
    /\ build_call.destination = OutDir
    /\ build_call.dest_exists

\* C8: the distribution kind handed to the isolated builder is editable
\* exactly for a directory artifact with the editable flag set, and wheel
\* otherwise; for an archive it is wheel whatever the flag.
C8_DistributionKind ==
    build_call.invoked =>
        build_call.distribution =
            IF is_dir(archive, dirs) /\ editable THEN "editable" ELSE "wheel"

C8_Witness ==
    /\ build_call.invoked
    /\ ~is_dir(archive, dirs)
    /\ editable
    /\ build_call.distribution = "wheel"

TopLevel == Glob(TmpDir, dirs, files)

\* C9: the project root is the only top-level entry when that is a
\* directory; else the candidate-named entry when that is a directory; else
\* the unpack directory. It is the unpack directory or a child directory.
\* (Checked from root detection until the unpacked tree is removed.)
C9_RootDetection ==
    (sdist_dir # None /\ ~Done) =>
        /\ IF Cardinality(TopLevel) = 1 /\ TopLevel \subseteq dirs
           THEN sdist_dir \in TopLevel
           ELSE IF \E q \in TopLevel :
                      Name(q) = CandidateName(archive) /\ q \in dirs
           THEN sdist_dir \in TopLevel
                /\ Name(sdist_dir) = CandidateName(archive)
           ELSE sdist_dir = TmpDir
        /\ \/ sdist_dir = TmpDir
           \/ sdist_dir \in TopLevel \cap dirs

C9_Witness ==
    /\ pc = "resolve"
    /\ Cardinality(TopLevel) = 1
    /\ TopLevel \subseteq files
    /\ sdist_dir = TmpDir

\* C10: the candidate subdirectory name is the archive's file name with its
\* final suffix removed once, and nothing else removed.
C10_SingleSuffixStrip ==
    candidate # NotComputed => candidate = PathStem(Name(archive))

====
